---- MODULE Spec2Model ----
(***************************************************************************)
(* A model of blib.py: the BibTeX walker's duplicate detection, the        *)
(* modification-time cache of read_library, the tag file, the four passes  *)
(* of do_lint and the fingerprint classification of do_diff.               *)
(*                                                                         *)
(* Python strings are modelled as sequences of one-character strings, so   *)
(* that splitting, stripping, lower-casing and the regular expressions of  *)
(* the source are computed and not assumed.                                *)
(***************************************************************************)
EXTENDS Integers, Sequences, FiniteSets, TLC

VARIABLES
    clock,        \* the file system's clock, the value getmtime reports for a write made now
    bibtex,       \* BIBTEX_PATH: the source, as the sequence of its entries <<type, id, properties>>
    bibtexMtime,  \* getmtime(BIBTEX_PATH)
    cache,        \* BIBTEX_CACHE_PATH: NoFile, or the text written by repr(library)
    cacheMtime,   \* getmtime(BIBTEX_CACHE_PATH)
    tagsFile,     \* TAGS_PATH: the sequence of its lines, each a sequence of tokens
    libraryDir,   \* LIBRARY_DIR: the files under it, as a set of <<directory, stem, suffix>>
    returned,     \* the value the last read_library call returned (a dict, in insertion order)
    readTags,     \* the value the last _read_tags call returned
    fresh,        \* read_library has returned and no file it reads was written since
    branch,       \* the branch the last read_library call took: "hit" or "rebuild"
    parsed,       \* what PARSER.parse_file returned
    localOut,     \* do_diff: the lines of the local find/md5 output, <<hash, path>>
    remoteOut,    \* do_diff: the lines of the remote find/md5sum output
    md5,          \* which md5 executable find_executable locates
    pc,           \* the position of the running command
    entries,      \* do_lint: the local variable entries
    stdout        \* what the running command has printed, one record per diagnostic

vars == <<clock, bibtex, bibtexMtime, cache, cacheMtime, tagsFile, libraryDir,
          returned, readTags, fresh, branch, parsed, localOut, remoteOut, md5,
          pc, entries, stdout>>

----------------------------------------------------------------------------
(* Strings *)

\* The characters of the model in code-point order (str comparison, sorted()).
ALPHABET ==
    <<" ", "\"", ",", "-", ".", "/", "0", "1", "2", "3", "4", "5", "6", "7", "8", "9",
      "A", "B", "C", "D", "E", "F", "G", "H", "I", "J", "K", "L", "M",
      "N", "O", "P", "Q", "R", "S", "T", "U", "V", "W", "X", "Y", "Z", "\\",
      "a", "b", "c", "d", "e", "f", "g", "h", "i", "j", "k", "l", "m",
      "n", "o", "p", "q", "r", "s", "t", "u", "v", "w", "x", "y", "z", "{", "}">>

Ord(c) == CHOOSE i \in 1..Len(ALPHABET) : ALPHABET[i] = c

DIGITS == {"0", "1", "2", "3", "4", "5", "6", "7", "8", "9"}
UPPER == {ALPHABET[i] : i \in Ord("A")..Ord("Z")}
LOWER == {ALPHABET[i] : i \in Ord("a")..Ord("z")}

\* str.lower() on one character
LowerChar(c) == IF c \in UPPER THEN ALPHABET[Ord(c) - Ord("A") + Ord("a")] ELSE c

\* str.lower()
Lower(s) == [i \in 1..Len(s) |-> LowerChar(s[i])]

\* str.startswith
StartsWith(s, p) == Len(p) <= Len(s) /\ SubSeq(s, 1, Len(p)) = p

\* str.endswith
EndsWith(s, p) == Len(p) <= Len(s) /\ SubSeq(s, Len(s) - Len(p) + 1, Len(s)) = p

\* s[i:] starts with p
MatchAt(s, i, p) == i + Len(p) - 1 <= Len(s) /\ SubSeq(s, i, i + Len(p) - 1) = p

\* c in s
HasChar(s, c) == \E i \in 1..Len(s) : s[i] = c

\* s < t for Python strings: lexicographic by code point
StrLess(s, t) ==
    \E k \in 0..Len(s) :
        /\ k <= Len(t)
        /\ \A i \in 1..k : s[i] = t[i]
        /\ \/ (k = Len(s) /\ k < Len(t))
           \/ (k < Len(s) /\ k < Len(t) /\ Ord(s[k + 1]) < Ord(t[k + 1]))

\* str.split(sep) for a non-empty separator: the pieces between its
\* non-overlapping occurrences, found left to right
RECURSIVE SplitFrom(_, _, _, _)
SplitFrom(s, sep, i, acc) ==
    IF i > Len(s) THEN <<acc>>
    ELSE IF MatchAt(s, i, sep) THEN <<acc>> \o SplitFrom(s, sep, i + Len(sep), <<>>)
    ELSE SplitFrom(s, sep, i + 1, Append(acc, s[i]))

Split(s, sep) == SplitFrom(s, sep, 1, <<>>)

\* sep.join(parts)
RECURSIVE Join(_, _)
Join(parts, sep) ==
    IF parts = <<>> THEN <<>>
    ELSE IF Len(parts) = 1 THEN parts[1]
    ELSE parts[1] \o sep \o Join(Tail(parts), sep)

\* the set of all sequences over S of length at most n
SeqsUpTo(S, n) == UNION {[1..k -> S] : k \in 0..n}

\* sorted(S) for a set of strings
RECURSIVE SortedStrs(_)
SortedStrs(S) ==
    IF S = {} THEN <<>>
    ELSE LET m == CHOOSE x \in S : \A y \in S \ {x} : StrLess(x, y)
         IN  <<m>> \o SortedStrs(S \ {m})

----------------------------------------------------------------------------
(* Dictionaries in insertion order: a sequence of <<key, value>> with      *)
(* distinct keys.                                                          *)

Keys(d) == {d[i][1] : i \in 1..Len(d)}

Get(d, k) == d[CHOOSE i \in 1..Len(d) : d[i][1] = k][2]

\* d[k] = v: a new key goes last, an old key keeps its place
Put(d, k, v) ==
    IF k \in Keys(d)
    THEN [i \in 1..Len(d) |-> IF d[i][1] = k THEN <<k, v>> ELSE d[i]]
    ELSE Append(d, <<k, v>>)

\* dict(pairs)
RECURSIVE DictOf(_)
DictOf(pairs) ==
    IF pairs = <<>> THEN <<>>
    ELSE LET n == Len(pairs)
         IN  Put(DictOf(SubSeq(pairs, 1, n - 1)), pairs[n][1], pairs[n][2])

----------------------------------------------------------------------------
(* The BibTeX walker.  The source is the sequence of the entries the       *)
(* grammar matched, each <<type, id, properties>> with properties a        *)
(* sequence of <<name, value>>.                                            *)

\* _parse_BibtexEntry: (id, dict([['type', type], *attrs]))
ParseBibtexEntry(raw) == <<raw[2], DictOf(<<<<"type", raw[1]>>>> \o raw[3])>>

\* Counter(kv[0] for kv in results)[id]
CountOf(res, id) == Cardinality({i \in 1..Len(res) : res[i][1] = id})

\* list(Counter(...)): the distinct ids in the order they are first seen
RECURSIVE FirstSeen(_)
FirstSeen(res) ==
    IF res = <<>> THEN <<>>
    ELSE LET n == Len(res)
             before == FirstSeen(SubSeq(res, 1, n - 1))
         IN  IF \E i \in 1..(n - 1) : res[i][1] = res[n][1]
             THEN before ELSE Append(before, res[n][1])

\* sorted(ids, key=count, reverse=True): a stable sort, so ids with equal
\* counts keep the order in which they were first seen
RECURSIVE SortByCount(_, _)
SortByCount(ids, res) ==
    IF ids = <<>> THEN <<>>
    ELSE LET k == CHOOSE i \in 1..Len(ids) :
                      /\ \A j \in 1..Len(ids) : CountOf(res, ids[j]) <= CountOf(res, ids[i])
                      /\ \A j \in 1..(i - 1) : CountOf(res, ids[j]) < CountOf(res, ids[i])
         IN  <<ids[k]>> \o SortByCount(SubSeq(ids, 1, k - 1) \o SubSeq(ids, k + 1, Len(ids)), res)

\* a walker that reads the counts in the order the ids were first seen
MostCommonUnsorted(res) == FirstSeen(res)

\* Counter.most_common(), the ids only
MostCommon(res) == SortByCount(FirstSeen(res), res)

\* the loop of _parse_BibtexFile: one notice per id, until the first id counted once
RECURSIVE NoticesUntilOne(_, _)
NoticesUntilOne(ids, res) ==
    IF ids = <<>> \/ CountOf(res, Head(ids)) = 1 THEN <<>>
    ELSE <<[kind |-> "duplicate IDs", id |-> Head(ids)]>> \o NoticesUntilOne(Tail(ids), res)

DuplicateNotices(res) == NoticesUntilOne(MostCommon(res), res)

\* _parse_BibtexFile: the returned mapping
ParseBibtexFile(res) == DictOf(res)

\* the results the walker hands to _parse_BibtexFile for a source
WalkEntries(src) == [i \in 1..Len(src) |-> ParseBibtexEntry(src[i])]

\* PARSER.parse_file(BIBTEX_PATH)
ParseFile(src) == ParseBibtexFile(WalkEntries(src))

----------------------------------------------------------------------------
(* do_diff *)

PDF == <<".", "p", "d", "f">>

\* Path(path).stem of a path <<directory, stem, suffix>>
Stem(path) == path[2]

\* lines 391-394 for one location: stem -> hash, a later line of a stem replacing an earlier
HashesOf(out) == DictOf([i \in 1..Len(out) |-> <<Stem(out[i][2]), out[i][1]>>])

\* lines 396-402: the symbol of a stem, or "" when it gets no line
DiffSymbol(stem, loc, rem) ==
    IF stem \notin Keys(loc) THEN ">"
    ELSE IF stem \notin Keys(rem) THEN "<"
    ELSE IF Get(loc, stem) # Get(rem, stem) THEN "!"
    ELSE ""

\* lines 395-404: the printed lines, sorted by stem
DiffLines(loc, rem) ==
    LET flagged == {s \in Keys(loc) \cup Keys(rem) : DiffSymbol(s, loc, rem) # ""}
        order == SortedStrs(flagged)
    IN  [i \in 1..Len(order) |->
            [symbol |-> DiffSymbol(order[i], loc, rem), stem |-> order[i]]]

\* find_md5: FileNotFoundError when neither md5sum nor md5 is found
DoDiff ==
    /\ pc = "idle"
    /\ IF md5 = "none"
       THEN pc' = "crashed" /\ stdout' = <<>>
       ELSE pc' = "done" /\ stdout' = DiffLines(HashesOf(localOut), HashesOf(remoteOut))
    /\ UNCHANGED <<clock, bibtex, bibtexMtime, cache, cacheMtime, tagsFile, libraryDir,
                   returned, readTags, fresh, branch, parsed, localOut, remoteOut, md5,
                   entries>>

----------------------------------------------------------------------------
(* The tag file and the cache *)

NoFile == "NoFile"

\* str.strip(): leading and trailing blanks removed
RECURSIVE Strip(_)
Strip(s) ==
    IF s = <<>> THEN s
    ELSE IF Head(s) = " " THEN Strip(Tail(s))
    ELSE IF s[Len(s)] = " " THEN Strip(SubSeq(s, 1, Len(s) - 1))
    ELSE s

\* the elements of a list as a set: set(tags)
SetOf(seq) == {seq[i] : i \in 1..Len(seq)}

\* line 197: result[entry_id] = set(tags)
TagsOfLine(result, tokens) == Put(result, Head(tokens), SetOf(Tail(tokens)))

\* _read_tags: blank lines skipped, the first token of a line is the id
RECURSIVE ReadTags(_)
ReadTags(lines) ==
    IF lines = <<>> THEN <<>>
    ELSE LET n == Len(lines)
             before == ReadTags(SubSeq(lines, 1, n - 1))
             line == Strip(lines[n])
         IN  IF line = <<>> THEN before
             ELSE TagsOfLine(before, Split(line, <<" ">>))

\* repr(library): the text of the dict, here the flat sequence
\* id, number of attributes, name, value, name, value, ... of each entry in turn
RECURSIVE ReprAttrs(_)
ReprAttrs(attrs) ==
    IF attrs = <<>> THEN <<>>
    ELSE <<Head(attrs)[1], Head(attrs)[2]>> \o ReprAttrs(Tail(attrs))

RECURSIVE Repr(_)
Repr(library) ==
    IF library = <<>> THEN <<>>
    ELSE <<Head(library)[1], Len(Head(library)[2])>> \o ReprAttrs(Head(library)[2])
         \o Repr(Tail(library))

\* literal_eval(text): the dict the text denotes
RECURSIVE EvalAttrs(_)
EvalAttrs(text) ==
    IF text = <<>> THEN <<>>
    ELSE <<<<text[1], text[2]>>>> \o EvalAttrs(SubSeq(text, 3, Len(text)))

RECURSIVE LiteralEval(_)
LiteralEval(text) ==
    IF text = <<>> THEN <<>>
    ELSE LET n == text[2]
         IN  <<<<text[1], EvalAttrs(SubSeq(text, 3, 2 + 2 * n))>>>>
             \o LiteralEval(SubSeq(text, 3 + 2 * n, Len(text)))

\* a comparison that also takes a cache as old as the source
CacheIsFreshOrEqual(cacheFile, cacheTime, sourceTime) ==
    cacheFile # NoFile /\ cacheTime >= sourceTime

\* line 202: the cache is used when it exists and is strictly newer than the source
CacheIsFresh(cacheFile, cacheTime, sourceTime) ==
    cacheFile # NoFile /\ cacheTime > sourceTime

\* lines 211-213: library[paper_id]['tags'] = paper_tags for the ids the library holds
MergeTags(library, tags) ==
    [i \in 1..Len(library) |->
        IF library[i][1] \in Keys(tags)
        THEN <<library[i][1], Put(library[i][2], "tags", Get(tags, library[i][1]))>>
        ELSE library[i]]

\* a rebuild that writes the cache after the tags were merged
CacheTextAfterMerge(library, tags) == Repr(MergeTags(library, tags))

\* lines 207-209: what a rebuild writes to the cache file, given the parsed
\* library and the tags that are merged into it afterwards
CacheText(library, tags) == Repr(library)

\* read_library(): a cache hit, or a rebuild that parses the source and writes
\* the cache; then the tags of the tag file are merged into the result
ReadLibraryCall ==
    /\ LET hit == CacheIsFresh(cache, cacheMtime, bibtexMtime)
           library == IF hit THEN LiteralEval(cache) ELSE ParseFile(bibtex)
           tags == ReadTags(tagsFile)
       IN  /\ branch' = IF hit THEN "hit" ELSE "rebuild"
           /\ cache' = IF hit THEN cache ELSE CacheText(library, tags)
           /\ cacheMtime' = IF hit THEN cacheMtime ELSE clock
           /\ stdout' = IF hit THEN <<>> ELSE DuplicateNotices(WalkEntries(bibtex))
           /\ readTags' = tags
           /\ returned' = MergeTags(library, tags)
    /\ fresh' = TRUE

\* a command that reads the library and prints nothing of its own
ReadLibrary ==
    /\ pc = "idle"
    /\ ReadLibraryCall
    /\ UNCHANGED <<clock, bibtex, bibtexMtime, tagsFile, libraryDir,
                   parsed, localOut, remoteOut, md5, pc, entries>>

\* a directory outside LIBRARY_DIR
DOWNLOADS == <<"~">>

\* line 156: LIBRARY_DIR/<first letter of the name, lower case>/<stem>.pdf
NewPath(filepath) == <<<<LowerChar(filepath[2][1])>>, Stem(filepath), PDF>>

\* _store(filepath): unless the file is already in place, mv old_path new_path,
\* which moves the file when it exists
Store(files, filepath, exists) ==
    IF filepath = NewPath(filepath) THEN files
    ELSE IF filepath[1] = DOWNLOADS
    THEN (IF exists THEN files \cup {NewPath(filepath)} ELSE files)
    ELSE (IF filepath \in files THEN (files \ {filepath}) \cup {NewPath(filepath)} ELSE files)

\* line 228: the line do_tag appends, ' '.join([filepath.stem, *tags])
TagLine(stem, tags) == Join(<<stem>> \o tags, <<" ">>)

----------------------------------------------------------------------------
(* Bounds and the inputs drawn from them *)

MaxClock == 2
MaxEntries == 2
MaxTagLines == 2
MaxParsed == 4
MaxLines == 2
MaxLintEntries == 2

ARTICLE == <<"a", "r", "t", "i", "c", "l", "e">>
BOOK == <<"b", "o", "o", "k">>

\* the sources of the cache specification: entries without properties
SmallIds == {<<"a">>, <<"b">>}
SmallEntries == {<<t, id, <<>>>> : t \in {ARTICLE, BOOK}, id \in SmallIds}
CacheEntries == {<<ARTICLE, id, <<>>>> : id \in SmallIds}
TagArgs == {<<<<"x">>>>, <<<<"y">>>>}
NewFiles == {<<DOWNLOADS, id, PDF>> : id \in SmallIds}
FiledA == <<<<"a">>, <<"a">>, PDF>>

\* the md5 lines of do_diff
Stems == {<<"a">>, <<"b">>, <<"c">>}
Hashes == {<<"1">>, <<"9">>}
Md5Lines == {<<h, <<d, st, PDF>>>> : h \in Hashes, d \in {<<"a">>, <<"z">>}, st \in Stems}

FilesAtRest ==
    /\ clock = 0
    /\ bibtexMtime = 0
    /\ cache = NoFile
    /\ cacheMtime = 0
    /\ tagsFile = <<>>
    /\ libraryDir = {}

NothingRead ==
    /\ returned = <<>>
    /\ readTags = <<>>
    /\ fresh = FALSE
    /\ branch = "none"
    /\ parsed = <<>>
    /\ entries = <<>>
    /\ stdout = <<>>
    /\ pc = "idle"

NoDiff ==
    /\ localOut = <<>>
    /\ remoteOut = <<>>
    /\ md5 = "md5sum"

----------------------------------------------------------------------------
(* do_diff on every pair of md5 outputs *)

InitDiff ==
    /\ FilesAtRest /\ NothingRead /\ bibtex = <<>>
    /\ localOut \in SeqsUpTo(Md5Lines, MaxLines)
    /\ remoteOut \in SeqsUpTo(Md5Lines, MaxLines)
    /\ md5 \in {"md5sum", "md5", "none"}

SpecDiff == InitDiff /\ [][DoDiff]_vars

----------------------------------------------------------------------------
(* The walker on every source *)

ParseSource ==
    /\ pc = "idle"
    /\ pc' = "done"
    /\ parsed' = ParseFile(bibtex)
    /\ stdout' = DuplicateNotices(WalkEntries(bibtex))
    /\ UNCHANGED <<clock, bibtex, bibtexMtime, cache, cacheMtime, tagsFile, libraryDir,
                   returned, readTags, fresh, branch, localOut, remoteOut, md5, entries>>

InitParse ==
    /\ FilesAtRest /\ NothingRead /\ NoDiff
    /\ bibtex \in SeqsUpTo(SmallEntries, MaxParsed)

SpecParse == InitParse /\ [][ParseSource]_vars

----------------------------------------------------------------------------
(* The source, the cache and the tag file over time *)

Tick ==
    /\ clock < MaxClock
    /\ clock' = clock + 1
    /\ UNCHANGED <<bibtex, bibtexMtime, cache, cacheMtime, tagsFile, libraryDir,
                   returned, readTags, fresh, branch, parsed, localOut, remoteOut, md5,
                   pc, entries, stdout>>

\* the user saves the source: its modification time becomes the clock's value
ModifySource ==
    /\ \E src \in SeqsUpTo(CacheEntries, MaxEntries) : bibtex' = src
    /\ bibtexMtime' = clock
    /\ fresh' = FALSE
    /\ UNCHANGED <<clock, cache, cacheMtime, tagsFile, libraryDir,
                   returned, readTags, branch, parsed, localOut, remoteOut, md5,
                   pc, entries, stdout>>

\* do_tag(filepath, *tags), filepath a Path: main() hands it a str, on which
\* line 228 raises after _store has run and before anything is written
TagAppend(filepaths, args) ==
    /\ Len(tagsFile) < MaxTagLines
    /\ \E filepath \in filepaths, tags \in args, exists \in BOOLEAN :
           /\ libraryDir' = Store(libraryDir, filepath, exists)
           /\ tagsFile' = Append(tagsFile, TagLine(Stem(filepath), tags))
    /\ fresh' = FALSE
    /\ stdout' = <<>>
    /\ UNCHANGED <<clock, bibtex, bibtexMtime, cache, cacheMtime,
                   returned, readTags, branch, parsed, localOut, remoteOut, md5,
                   pc, entries>>

\* tagging a file that is already in place
TagFiled == TagAppend({FiledA}, TagArgs)

InitCache ==
    /\ NothingRead /\ NoDiff
    /\ clock = 0
    /\ bibtex = <<>>
    /\ bibtexMtime = 0
    /\ cache = NoFile
    /\ cacheMtime = 0
    /\ tagsFile = <<>>
    /\ libraryDir = {FiledA}

NextCache == Tick \/ ModifySource \/ TagFiled \/ ReadLibrary

SpecCache == InitCache /\ [][NextCache]_vars

----------------------------------------------------------------------------
(* The tag file alone: do_tag and do_tags *)

\* sorted(tags, key=str.lower); tags equal up to case come in the set's order
RECURSIVE SortedByLower(_)
SortedByLower(S) ==
    IF S = {} THEN <<>>
    ELSE LET m == CHOOSE x \in S : \A y \in S : ~StrLess(Lower(y), Lower(x))
         IN  <<m>> \o SortedByLower(S \ {m})

\* tagging a file that is moved into the library
DoTag == TagAppend(NewFiles, TagArgs)

\* do_tags: set.union(*values) raises TypeError when the tag file has no line
DoTags ==
    /\ LET tags == ReadTags(tagsFile)
           all == UNION {tags[i][2] : i \in 1..Len(tags)}
           order == SortedByLower(all)
       IN  /\ readTags' = tags
           /\ stdout' = IF tags = <<>> THEN <<[kind |-> "TypeError"]>>
                        ELSE [i \in 1..Len(order) |-> [kind |-> "tag", tag |-> order[i]]]
    /\ fresh' = TRUE
    /\ UNCHANGED <<clock, bibtex, bibtexMtime, cache, cacheMtime, tagsFile, libraryDir,
                   returned, branch, parsed, localOut, remoteOut, md5, pc, entries>>

InitTags ==
    /\ FilesAtRest /\ NothingRead /\ NoDiff
    /\ bibtex = <<>>

NextTags == DoTag \/ DoTags

SpecTags == InitTags /\ [][NextTags]_vars

----------------------------------------------------------------------------
(* do_lint *)

\* WEIRD_NAMES, lines 26-37
WEIRD_NAMES ==
    <<<<<<"C", "o", "m", "p", "u", "t", "i", "n", "g", " ", "R", "e", "s", "e", "a", "r", "c", "h", " ", "A", "s", "s", "o", "c", "i", "a", "t", "i", "o", "n">>,
        <<"C", "R", "A">>>>,
      <<<<"L", "i", "b", "e", "r", "a", "l", " ", "A", "r", "t", "s", " ", "C", "o", "m", "p", "u", "t", "e", "r", " ", "S", "c", "i", "e", "n", "c", "e", " ", "C", "o", "n", "s", "o", "r", "t", "i", "u", "m">>,
        <<"L", "A", "C", "S">>>>,
      <<<<"T", "h", "e", " ", "C", "o", "l", "l", "e", "g", "e", " ", "B", "o", "a", "r", "d">>,
        <<"C", "B">>>>,
      <<<<"T", "h", "e", " ", "J", "o", "i", "n", " ", "T", "a", "s", "k", " ", "F", "o", "r", "c", "e", " ", "o", "n", " ", "C", "o", "m", "p", "u", "t", "i", "n", "g", " ", "C", "u", "r", "r", "i", "c", "u", "l", "a">>,
        <<"J", "T", "F", "C", "C">>>>,
      <<<<"o", "t", "h", "e", "r", "s">>,
        <<>>>>,
      <<<<"{", "G", "o", "o", "g", "l", "e", " ", "I", "n", "c", ".", "}">>,
        <<"G", "o", "o", "g", "l", "e">>>>,
      <<<<"{", "G", "a", "l", "l", "u", "p", " ", "I", "n", "c", ".", "}">>,
        <<"G", "a", "l", "l", "u", "p">>>>,
      <<<<"{", "N", "a", "t", "i", "o", "n", "a", "l", " ", "A", "c", "a", "d", "e", "m", "i", "e", "s", " ", "o", "f", " ", "S", "c", "i", "e", "n", "c", "e", "s", ",", " ", "E", "n", "g", "i", "n", "e", "e", "r", "i", "n", "g", ",", " ", "a", "n", "d", " ", "M", "e", "d", "i", "c", "i", "n", "e", "}">>,
        <<"N", "A", "S", "E", "M">>>>,
      <<<<"{", "U", "M", "B", "E", "L", " ", "P", "r", "o", "j", "e", "c", "t", "}">>,
        <<"U", "M", "B", "E", "L">>>>,
      <<<<"{", "t", "h", "e", " ", "A", "B", "C", " ", "R", "e", "s", "e", "a", "r", "c", "h", " ", "G", "r", "o", "u", "p", "}">>,
        <<"A", "B", "C">>>>>>

\* ID_SUFFIXES, lines 39-42: the two patterns, by name
ID_SUFFIXES == <<"[0-9]+", "Thesis">>

THESIS == <<"T", "h", "e", "s", "i", "s">>
AND == <<" ", "a", "n", "d", " ">>

\* person in WEIRD_NAMES
IsWeird(name) == name \in Keys(WEIRD_NAMES)

\* a check that forgets the exceptions among the persons
NonConformingAnyone(people) == \E i \in 1..Len(people) : ~HasChar(people[i], ",")

\* line 241: some person who is no exception has no comma
NonConforming(people) ==
    \E i \in 1..Len(people) : ~IsWeird(people[i]) /\ ~HasChar(people[i], ",")

\* the first blank of s at or after position i, 0 when there is none
RECURSIVE NextBlank(_, _)
NextBlank(s, i) ==
    IF i > Len(s) THEN 0 ELSE IF s[i] = " " THEN i ELSE NextBlank(s, i + 1)

\* the blank that ends group 'first' of the pattern of line 245, given that the
\* blank at q may end it: the capitalised words that follow are taken as long
\* as a blank follows them
RECURSIVE EndOfFirst(_, _)
EndOfFirst(s, q) ==
    IF q + 1 <= Len(s) /\ s[q + 1] \in UPPER /\ NextBlank(s, q + 2) # 0
    THEN EndOfFirst(s, NextBlank(s, q + 2))
    ELSE q

\* lines 245-251: re.sub(pattern, last + ', ' + first, person); the match
\* starts at the leftmost capital that a blank follows and runs to the end
RECURSIVE SuggestFrom(_, _)
SuggestFrom(s, i) ==
    IF i > Len(s) THEN s
    ELSE IF s[i] \in UPPER /\ NextBlank(s, i + 1) # 0
    THEN LET q == EndOfFirst(s, NextBlank(s, i + 1))
         IN  SubSeq(s, 1, i - 1) \o SubSeq(s, q + 1, Len(s)) \o <<",", " ">>
             \o SubSeq(s, i, q - 1)
    ELSE SuggestFrom(s, i + 1)

\* lines 246-253: the suggested value
Suggestion(people) ==
    Join([i \in 1..Len(people) |->
              IF IsWeird(people[i]) THEN people[i] ELSE SuggestFrom(people[i], 1)], AND)

\* lines 235-255 for one attribute of one entry: the diagnostic, if any
NameDiagnostics(entry, attribute) ==
    IF attribute \notin Keys(entry[2]) THEN <<>>
    ELSE IF IsWeird(Get(entry[2], attribute)) THEN <<>>
    ELSE LET people == Split(Get(entry[2], attribute), AND)
         IN  IF NonConforming(people)
             THEN <<[kind |-> "non-conforming", attribute |-> attribute, id |-> entry[1],
                     current |-> Get(entry[2], attribute), suggested |-> Suggestion(people)]>>
             ELSE <<>>

\* lines 234-255: the first pass
RECURSIVE LintNamesOf(_)
LintNamesOf(lib) ==
    IF lib = <<>> THEN <<>>
    ELSE NameDiagnostics(Head(lib), "author") \o NameDiagnostics(Head(lib), "editor")
         \o LintNamesOf(Tail(lib))

\* lines 258-262: the first author, or the abbreviation of an exception
FirstAuthor(author) ==
    IF IsWeird(author) THEN Get(WEIRD_NAMES, author)
    ELSE LET first == Split(author, AND)[1]
         IN  IF IsWeird(first) THEN Get(WEIRD_NAMES, first) ELSE Split(first, <<",">>)[1]

\* line 264: re.sub(r'\\.{(.)}', r'\1', s)
RECURSIVE SubAccents(_, _)
SubAccents(s, i) ==
    IF i > Len(s) THEN <<>>
    ELSE IF i + 4 <= Len(s) /\ s[i] = "\\" /\ s[i + 2] = "{" /\ s[i + 4] = "}"
    THEN <<s[i + 3]>> \o SubAccents(s, i + 5)
    ELSE <<s[i]>> \o SubAccents(s, i + 1)

\* line 265: re.sub('[^0-9A-Za-z]', '', s)
AlnumOnly(s) == SelectSeq(s, LAMBDA c : c \in DIGITS \cup UPPER \cup LOWER)

\* lines 263-265: the id computed from author, year and title
DerivedId(attrs) ==
    AlnumOnly(SubAccents(FirstAuthor(Get(attrs, "author")) \o Get(attrs, "year")
                             \o Get(attrs, "title"), 1))

\* re.search(suffix + '$', s)
SearchSuffix(suffix, s) ==
    IF suffix = "[0-9]+" THEN s # <<>> /\ s[Len(s)] \in DIGITS
    ELSE EndsWith(s, THESIS)

\* re.sub(suffix + '$', '', s)
RECURSIVE SubSuffix(_, _)
SubSuffix(suffix, s) ==
    IF ~SearchSuffix(suffix, s) THEN s
    ELSE IF suffix = "[0-9]+" THEN SubSuffix(suffix, SubSeq(s, 1, Len(s) - 1))
    ELSE SubSeq(s, 1, Len(s) - Len(THESIS))

\* lines 267-269: the suffixes are stripped, each in turn, until none matches
RECURSIVE StripSuffixes(_)
StripSuffixes(s) ==
    IF \E k \in 1..Len(ID_SUFFIXES) : SearchSuffix(ID_SUFFIXES[k], s)
    THEN StripSuffixes(SubSuffix(ID_SUFFIXES[2], SubSuffix(ID_SUFFIXES[1], s)))
    ELSE s

\* line 270: the stripped id is a prefix of the computed id, letter case aside
IdMatches(currentId, entryId) == StartsWith(Lower(entryId), Lower(currentId))

\* lines 258-273 for one entry whose author, year and title exist
IdDiagnostics(entry) ==
    LET entryId == DerivedId(entry[2])
        currentId == StripSuffixes(entry[1])
    IN  IF IdMatches(currentId, entryId) THEN <<>>
        ELSE <<[kind |-> "suspicious ID", current |-> Lower(currentId),
                computed |-> Lower(entryId)]>>

\* entry['author'], entry['year'], entry['title'] raise KeyError when absent
HasIdAttributes(entry) == {"author", "year", "title"} \subseteq Keys(entry[2])

\* lines 257-273: the second pass, up to the first entry that raises
RECURSIVE LintIdsOf(_)
LintIdsOf(lib) ==
    IF lib = <<>> \/ ~HasIdAttributes(Head(lib)) THEN <<>>
    ELSE IdDiagnostics(Head(lib)) \o LintIdsOf(Tail(lib))

\* whether the second pass raises KeyError
IdsPassRaises(lib) == \E i \in 1..Len(lib) : ~HasIdAttributes(lib[i])


\* _get_library: stem -> path of the .pdf files; of two files with one stem,
\* the one os.walk yields last is kept
GetLibrary(files) ==
    LET pdfs == {f \in files : f[3] = PDF}
        stems == {Stem(f) : f \in pdfs}
    IN  {papers \in [stems -> pdfs] : \A st \in stems : Stem(papers[st]) = st}

\* the orders in which a set can be iterated
OrdersOf(S) ==
    {order \in [1..Cardinality(S) -> S] :
        \A i \in 1..Cardinality(S), j \in 1..Cardinality(S) : i # j => order[i] # order[j]}

\* line 276: set(library.keys()) - set(entries.keys())
MissingKeys(papers, lib) == DOMAIN papers \ Keys(lib)

\* lines 282-286: groups in braces that hold no brace are removed, until none is left
RECURSIVE SubGroups(_, _)
SubGroups(s, i) ==
    IF i > Len(s) THEN <<>>
    ELSE IF s[i] = "{" /\ \E j \in (i + 1)..Len(s) :
                              s[j] = "}" /\ \A k \in (i + 1)..(j - 1) : s[k] \notin {"{", "}"}
    THEN LET j == CHOOSE j \in (i + 1)..Len(s) :
                      s[j] = "}" /\ \A k \in (i + 1)..(j - 1) : s[k] \notin {"{", "}"}
         IN  SubGroups(s, j + 1)
    ELSE <<s[i]>> \o SubGroups(s, i + 1)

RECURSIVE Unbraced(_)
Unbraced(title) ==
    IF SubGroups(title, 1) = title THEN title ELSE Unbraced(SubGroups(title, 1))

\* str.split(): the words between runs of blanks
Words(s) == SelectSeq(Split(s, <<" ">>), LAMBDA w : w # <<>>)

\* line 290: re.sub('[-/][A-Z]', '', word)
RECURSIVE SubHyphenated(_, _)
SubHyphenated(s, i) ==
    IF i > Len(s) THEN <<>>
    ELSE IF i + 1 <= Len(s) /\ s[i] \in {"-", "/"} /\ s[i + 1] \in UPPER
    THEN SubHyphenated(s, i + 2)
    ELSE <<s[i]>> \o SubHyphenated(s, i + 1)

\* line 292: len(re.findall('[A-Za-z][A-Z]', word))
RECURSIVE CountInnerCapitals(_, _)
CountInnerCapitals(s, i) ==
    IF i + 1 > Len(s) THEN 0
    ELSE IF s[i] \in UPPER \cup LOWER /\ s[i + 1] \in UPPER
    THEN 1 + CountInnerCapitals(s, i + 2)
    ELSE CountInnerCapitals(s, i + 1)

\* lines 287-294: some word without a brace has more than one inner capital
Unquoted(title) ==
    LET words == Words(Unbraced(title))
    IN  \E i \in 1..Len(words) :
            /\ ~HasChar(words[i], "{")
            /\ CountInnerCapitals(SubHyphenated(words[i], 1), 1) > 1

\* lines 279-294: the fourth pass
RECURSIVE LintTitlesOf(_)
LintTitlesOf(lib) ==
    IF lib = <<>> THEN <<>>
    ELSE (IF Unquoted(Get(Head(lib)[2], "title"))
          THEN <<[kind |-> "unquoted title", id |-> Head(lib)[1],
                  title |-> Get(Head(lib)[2], "title")]>>
          ELSE <<>>)
         \o LintTitlesOf(Tail(lib))

\* line 232: entries = read_library()
LintStart ==
    /\ pc = "idle"
    /\ ReadLibraryCall
    /\ entries' = returned'
    /\ pc' = "names"
    /\ UNCHANGED <<clock, bibtex, bibtexMtime, tagsFile, libraryDir,
                   parsed, localOut, remoteOut, md5>>

LintUnchanged ==
    UNCHANGED <<clock, bibtex, bibtexMtime, cache, cacheMtime, tagsFile, libraryDir,
                returned, readTags, fresh, branch, parsed, localOut, remoteOut, md5,
                entries>>

\* lines 234-255
LintNames ==
    /\ pc = "names"
    /\ stdout' = stdout \o LintNamesOf(entries)
    /\ pc' = "ids"
    /\ LintUnchanged

\* lines 257-273: a KeyError ends the run
LintIds ==
    /\ pc = "ids"
    /\ stdout' = stdout \o LintIdsOf(entries)
    /\ pc' = IF IdsPassRaises(entries) THEN "crashed" ELSE "orphans"
    /\ LintUnchanged

\* lines 275-277: one line per missing key, in the order the set gives them
LintOrphans ==
    /\ pc = "orphans"
    /\ \E papers \in GetLibrary(libraryDir) :
           \E order \in OrdersOf(MissingKeys(papers, entries)) :
               stdout' = stdout \o [i \in 1..Len(order) |->
                             [kind |-> "missing entry for file", path |-> papers[order[i]]]]
    /\ pc' = "titles"
    /\ LintUnchanged

\* lines 279-294
LintTitles ==
    /\ pc = "titles"
    /\ stdout' = stdout \o LintTitlesOf(entries)
    /\ pc' = "done"
    /\ LintUnchanged

\* the sources and the libraries do_lint is run on
SMITH == <<"s", "m", "i", "t", "h", "2", "0", "2", "0", "w", "i", "d", "g", "e", "t", "s">>
Y2020 == <<"2", "0", "2", "0">>
WIDGETS == <<"W", "i", "d", "g", "e", "t", "s">>

LintEntries ==
    {<<ARTICLE, SMITH,
       <<<<"author", <<"S", "m", "i", "t", "h", ",", " ", "J", "o", "h", "n">>>>, <<"year", Y2020>>, <<"title", WIDGETS>>>>>>,
     <<ARTICLE, SMITH,
       <<<<"author", <<"J", "o", "n", "e", "s", ",", " ", "M", "a", "r", "y">>>>, <<"year", Y2020>>, <<"title", WIDGETS>>>>>>,
     <<BOOK, <<"D", "o", "e", "2", "0", "2", "1", "T", "h", "e", "s", "i", "s", "2">>,
       <<<<"author", <<"D", "o", "e", ",", " ", "J", "o", " ", "a", "n", "d", " ", "o", "t", "h", "e", "r", "s">>>>, <<"year", <<"2", "0", "2", "1">>>>,
         <<"title", <<"A", " ", "{", "S", "}", "t", "u", "d", "y", " ", "o", "f", " ", "F", "o", "o", "B", "a", "r", "B", "a", "z">>>>>>>>,
     <<BOOK, <<"i", "c", "m", "l", "2", "0", "2", "0">>,
       <<<<"editor", <<"J", "a", "n", "e", " ", "R", "o", "e", " ", "a", "n", "d", " ", "D", "o", "e", ",", " ", "J", "o">>>>, <<"year", Y2020>>,
         <<"title", <<"I", "C", "M", "L">>>>>>>>,
     <<BOOK, <<"C", "R", "A", "2", "0", "1", "7">>,
       <<<<"author", <<"C", "o", "m", "p", "u", "t", "i", "n", "g", " ", "R", "e", "s", "e", "a", "r", "c", "h", " ", "A", "s", "s", "o", "c", "i", "a", "t", "i", "o", "n">>>>, <<"year", <<"2", "0", "1", "7">>>>,
         <<"title", <<"G", "e", "n", "e", "r", "a", "t", "i", "o", "n", " ", "{", "C", "S", "}">>>>>>>>,
     <<ARTICLE, <<"r", "o", "e", "2", "0", "1", "8">>,
       <<<<"author", <<"J", "a", "n", "e", " ", "R", "o", "e">>>>,
         <<"year", <<"2", "0", "1", "8">>>>, <<"title", <<"N", "o", "t", "e", "s">>>>>>>>,
     <<ARTICLE, <<"m", "u", "l", "l", "e", "r", "2", "0", "1", "9">>,
       <<<<"author", <<"M", "\\", "\"", "{", "u", "}", "l", "l", "e", "r", ",", " ", "A">>>>, <<"year", <<"2", "0", "1", "9">>>>,
         <<"title", <<"X", "-", "R", "a", "y">>>>>>>>}

DOE == <<"d", "o", "e", "2", "0", "2", "1", "s", "t", "u", "d", "y">>

LintFiles ==
    {<<<<"d">>, DOE, PDF>>,
     <<<<"x">>, DOE, PDF>>,
     <<<<"s">>, SMITH, PDF>>,
     <<<<"s">>, <<"S", "m", "i", "t", "h", "2", "0", "2", "0", "W", "i", "d", "g", "e", "t", "s">>, PDF>>,
     <<<<"n">>, <<"n", "o", "t", "e", "s">>, <<".", "t", "x", "t">>>>}

InitLint ==
    /\ NothingRead /\ NoDiff
    /\ clock = 0
    /\ bibtex \in SeqsUpTo(LintEntries, MaxLintEntries)
    /\ bibtexMtime = 0
    /\ cache = NoFile
    /\ cacheMtime = 0
    /\ tagsFile = <<>>
    /\ libraryDir \in SUBSET LintFiles

NextLint == LintStart \/ LintNames \/ LintIds \/ LintOrphans \/ LintTitles

SpecLint == InitLint /\ [][NextLint]_vars

----------------------------------------------------------------------------
(* CLAIMS *)

\* the tokens of a line of the tag file
TokensOf(line) == Split(Strip(line), <<" ">>)

\* the lines of the tag file whose first token is id
LinesOf(lines, id) ==
    {i \in 1..Len(lines) : Strip(lines[i]) # <<>> /\ Head(TokensOf(lines[i])) = id}

\* what the specification says of do_diff: '>' local only, '<' remote only, '!' differing
SymbolAsClaimed(stem, loc, rem) ==
    IF stem \notin Keys(rem) THEN ">"
    ELSE IF stem \notin Keys(loc) THEN "<"
    ELSE IF Get(loc, stem) # Get(rem, stem) THEN "!"
    ELSE ""

\* C1: do_diff prints one line per stem that is not on both sides with equal
\* hashes, sorted by stem, '>' for a stem only the local side has, '<' for one
\* only the remote side has, '!' for one whose hashes differ
C1_DiffAsClaimed ==
    pc = "done" =>
        LET loc == HashesOf(localOut)
            rem == HashesOf(remoteOut)
            all == Keys(loc) \cup Keys(rem)
        IN  /\ \A st \in all :
                   Cardinality({i \in 1..Len(stdout) : stdout[i].stem = st})
                       = IF SymbolAsClaimed(st, loc, rem) = "" THEN 0 ELSE 1
            /\ \A i \in 1..Len(stdout) :
                   /\ stdout[i].stem \in all
                   /\ stdout[i].symbol = SymbolAsClaimed(stdout[i].stem, loc, rem)
            /\ \A i \in 1..Len(stdout), j \in 1..Len(stdout) :
                   i < j => StrLess(stdout[i].stem, stdout[j].stem)

\* C2: _read_tags returns for every id the union of the tag sets of all the
\* lines whose first token is that id
C2_TagsAccumulate ==
    fresh =>
        /\ Keys(readTags) = {Head(TokensOf(tagsFile[i])) :
                                 i \in {j \in 1..Len(tagsFile) : Strip(tagsFile[j]) # <<>>}}
        /\ \A id \in Keys(readTags) :
               Get(readTags, id)
                   = UNION {SetOf(Tail(TokensOf(tagsFile[i]))) : i \in LinesOf(tagsFile, id)}

\* an entry without the attribute 'tags'
Untagged(entry) == <<entry[1], SelectSeq(entry[2], LAMBDA kv : kv[1] # "tags")>>

\* C3: every read_library call returns the entries that parsing the current
\* source gives, whether it used the cache or rebuilt it; so two calls with no
\* write in between agree, and a call after the source changed shows the change
C3_CacheCoherent ==
    fresh => [i \in 1..Len(returned) |-> Untagged(returned[i])] = ParseFile(bibtex)

C3_Witness ==
    /\ fresh
    /\ branch = "hit"
    /\ bibtexMtime >= 1
    /\ Len(returned) = 2

\* C4: _parse_BibtexFile prints one 'duplicate IDs' notice for each id that
\* occurs more than once and none for an id that occurs once, and returns one
\* entry per id, with the attributes of the id's last occurrence
C4_DuplicatesReported ==
    pc = "done" =>
        LET ids == {bibtex[i][2] : i \in 1..Len(bibtex)}
            last(id) == CHOOSE i \in 1..Len(bibtex) :
                            /\ bibtex[i][2] = id
                            /\ \A j \in (i + 1)..Len(bibtex) : bibtex[j][2] # id
        IN  /\ \A i \in 1..Len(stdout) : stdout[i].kind = "duplicate IDs"
            /\ \A id \in ids :
                   Cardinality({i \in 1..Len(stdout) : stdout[i].id = id})
                       = IF Cardinality({i \in 1..Len(bibtex) : bibtex[i][2] = id}) > 1
                         THEN 1 ELSE 0
            /\ Keys(parsed) = ids
            /\ Len(parsed) = Cardinality(ids)
            /\ \A id \in ids : Get(parsed, id) = <<<<"type", bibtex[last(id)][1]>>>>

C4_Witness ==
    /\ pc = "done"
    /\ Len(bibtex) = 3
    /\ bibtex[1][2] # bibtex[2][2]
    /\ bibtex[2][2] = bibtex[3][2]
    /\ bibtex[2][1] # bibtex[3][1]
    /\ Len(stdout) = 1

\* the tags of the last line of the tag file whose first token is id
LastLineTags(lines, id) ==
    LET last == CHOOSE i \in LinesOf(lines, id) : \A j \in LinesOf(lines, id) : j <= i
    IN  SetOf(Tail(TokensOf(lines[last])))

LintEnded == pc \in {"done", "crashed"}

\* C5: do_lint never aborts because an entry lacks an attribute: it skips the
\* entry in the check that needs the attribute and completes its four passes
C5_LintCompletes == pc # "crashed"

\* C6: for every entry that has author, year and title, a 'suspicious ID'
\* diagnostic is emitted if and only if the id, its suffixes stripped, is not a
\* prefix of the id derived from author, year and title, letter case aside
C6_SuspiciousIds ==
    LintEnded =>
        \A i \in 1..Len(entries) :
            HasIdAttributes(entries[i]) =>
                LET current == Lower(StripSuffixes(entries[i][1]))
                    computed == Lower(DerivedId(entries[i][2]))
                IN  (\E k \in 1..Len(stdout) :
                         /\ stdout[k].kind = "suspicious ID"
                         /\ stdout[k].current = current
                         /\ stdout[k].computed = computed)
                    <=> ~StartsWith(computed, current)

\* the persons of a value, a set
PersonsOf(value) == SetOf(Split(value, AND))

\* the condition of claim C7 on one attribute of one entry
MustBeFlagged(entry, attribute) ==
    /\ attribute \in Keys(entry[2])
    /\ Get(entry[2], attribute) \notin Keys(WEIRD_NAMES)
    /\ \E person \in PersonsOf(Get(entry[2], attribute)) :
           "," \notin SetOf(person) /\ person \notin Keys(WEIRD_NAMES)

\* C7: once the first pass has run, there is one 'non-conforming' diagnostic
\* for an entry's author or editor exactly when the attribute is present, its
\* value is no exception and some person who is no exception has no comma
C7_NamesReported ==
    pc \notin {"idle", "names"} =>
        /\ \A i \in 1..Len(entries) : \A attribute \in {"author", "editor"} :
               Cardinality({k \in 1..Len(stdout) :
                                /\ stdout[k].kind = "non-conforming"
                                /\ stdout[k].id = entries[i][1]
                                /\ stdout[k].attribute = attribute})
                   = IF MustBeFlagged(entries[i], attribute) THEN 1 ELSE 0
        /\ \A k \in 1..Len(stdout) :
               stdout[k].kind = "non-conforming" => stdout[k].id \in Keys(entries)

C7_Witness ==
    /\ pc = "done"
    /\ Len(entries) = 2
    /\ \E k \in 1..Len(stdout) :
           stdout[k].kind = "non-conforming" /\ stdout[k].attribute = "author"
    /\ \E i \in 1..Len(entries) :
           /\ "author" \in Keys(entries[i][2])
           /\ \A person \in PersonsOf(Get(entries[i][2], "author")) : "," \in SetOf(person)
           /\ \A k \in 1..Len(stdout) :
                  stdout[k].kind = "non-conforming" => stdout[k].id # entries[i][1]

\* C8: for every file index and every library, one 'missing entry for file'
\* line is printed for each stem of a .pdf file that is no entry id, and none
\* for a stem that is an entry id
C8_OrphansReported ==
    LintEnded =>
        \A f \in {g \in libraryDir : g[3] = PDF} :
            Cardinality({k \in 1..Len(stdout) :
                             /\ stdout[k].kind = "missing entry for file"
                             /\ Stem(stdout[k].path) = Stem(f)})
                = IF Stem(f) \in Keys(entries) THEN 0 ELSE 1

\* C9: the orphan-file check compares ids without regard to letter case: a
\* .pdf whose stem equals an entry id up to letter case is not reported
C9_OrphansIgnoreCase ==
    pc \in {"titles", "done"} =>
        \A k \in 1..Len(stdout) :
            stdout[k].kind = "missing entry for file" =>
                ~\E id \in Keys(entries) : Lower(id) = Lower(Stem(stdout[k].path))

====
